---------------------------- MODULE Spec2Model ----------------------------
(***************************************************************************)
(* Stock portfolio tracker (src/script.js): the position ledger with its   *)
(* weighted-average merge, the price cache, the sequential batch refresh,  *)
(* the valuation summary and the backup export / import.                   *)
(*                                                                         *)
(* JavaScript numbers are binary floating point with round-to-nearest,     *)
(* ties-to-even.  A number is modelled as m * 2^e with an odd mantissa m   *)
(* of at most Precision bits (IEEE double: 53 bits); every arithmetic      *)
(* operator computes the exact result and rounds it to that format, to     *)
(* Infinity from 2^(MaxExponent + 1) on (IEEE double: 2^1024).  Underflow  *)
(* and the sign of zero are not modelled.                                  *)
(* Strings are sequences of one-character strings.                         *)
(***************************************************************************)
EXTENDS Integers, Sequences, FiniteSets, Bags, TLC

(***************************************************************************)
(* Bounds of the model.                                                    *)
(***************************************************************************)
\* Mantissa width of the floating-point format.
Precision == 4
\* The largest binary exponent of a finite number.
MaxExponent == 16
\* Requests started by a merge or a chart load that may be pending at once.
MaxDetached == 1
\* Batch refreshes (fetchAllData runs) that may be running at once.
MaxBatches == 1
\* A merge is only submitted while the merged quantity of its symbol stays
\* within MaxQty, in SpecMerge within MaxMerged.
MaxQty == 1
MaxMerged == 6

(***************************************************************************)
(* Floating-point numbers.                                                 *)
(***************************************************************************)
\* 2^n, and 1 for a negative n.
Pow2(n) == IF n <= 0 THEN 1 ELSE 2 ^ n

\* The number of bits of n >= 0.
RECURSIVE BitLen(_)
BitLen(n) == IF n <= 0 THEN 0 ELSE 1 + BitLen(n \div 2)

Abs(n) == IF n < 0 THEN -n ELSE n

Sign(n) == IF n < 0 THEN -1 ELSE 1

Min(a, b) == IF a <= b THEN a ELSE b

\* The canonical form of m * 2^e: the mantissa is odd, or the number is 0.
RECURSIVE Norm(_, _)
Norm(m, e) ==
    IF m = 0 THEN [m |-> 0, e |-> 0]
    ELSE IF m % 2 = 0 THEN Norm(m \div 2, e + 1)
    ELSE [m |-> m, e |-> e]

\* Round to nearest, ties to even: hi is the kept part, lo the dropped part
\* and half the weight of half a unit of hi; sticky tells of a non-zero
\* residue below lo.
RoundParts(sign, hi, lo, half, e, sticky) ==
    IF lo > half \/ (lo = half /\ (sticky \/ hi % 2 = 1))
    THEN Norm(sign * (hi + 1), e)
    ELSE Norm(sign * hi, e)

\* sign * mag * 2^e with the last s bits of mag rounded away.
RoundShift(sign, mag, e, sticky, s) ==
    RoundParts(sign, mag \div Pow2(s), mag % Pow2(s), Pow2(s - 1), e + s, sticky)

\* sign * mag * 2^e rounded to Precision bits.
RoundTo(sign, mag, e, sticky) ==
    IF BitLen(mag) <= Precision THEN Norm(sign * mag, e)
    ELSE RoundShift(sign, mag, e, sticky, BitLen(mag) - Precision)

\* n * 2^e rounded.
Rounded(n, e) == RoundTo(Sign(n), Abs(n), e, FALSE)

\* The number nearest to the integer n.
Num(n) == Rounded(n, 0)

Zero == [m |-> 0, e |-> 0]

\* The values a number-typed JavaScript expression may also have.
NaN == [nan |-> TRUE]

Undefined == [undef |-> TRUE]

Null == [null |-> TRUE]

\* Infinity (sign 1) and -Infinity (sign -1).
Infinity(sign) == [inf |-> sign]

IsNum(x) == DOMAIN x = {"m", "e"}

IsInf(x) == DOMAIN x = {"inf"}

\* The number an operand of an arithmetic operator is converted to: null is
\* 0, undefined is NaN.
ToNumber(x) == IF x = Null THEN Zero ELSE IF x = Undefined THEN NaN ELSE x

\* A rounded result that exceeds the largest finite number is Infinity.
InRange(x) ==
    IF x.e + Precision > MaxExponent + 1 /\ BitLen(Abs(x.m)) + x.e > MaxExponent + 1
    THEN Infinity(Sign(x.m))
    ELSE x

\* The largest finite number.
MaxValue == [m |-> 2 ^ Precision - 1, e |-> MaxExponent + 1 - Precision]

SignOf(x) == IF IsInf(x) THEN x.inf ELSE Sign(x.m)

AddAt(a, b, e0) == Rounded(a.m * Pow2(a.e - e0) + b.m * Pow2(b.e - e0), e0)

\* a + b on numbers, infinities and NaN.
AddValues(a, b) ==
    IF a = NaN \/ b = NaN THEN NaN
    ELSE IF IsInf(a) THEN (IF IsInf(b) /\ b # a THEN NaN ELSE a)
    ELSE IF IsInf(b) THEN b
    ELSE InRange(AddAt(a, b, Min(a.e, b.e)))

\* a + b
FAdd(a, b) ==
    IF IsNum(a) /\ IsNum(b) THEN InRange(AddAt(a, b, Min(a.e, b.e)))
    ELSE AddValues(ToNumber(a), ToNumber(b))

\* -a on numbers, infinities and NaN.
Neg(a) ==
    IF IsNum(a) THEN [m |-> -a.m, e |-> a.e]
    ELSE IF IsInf(a) THEN Infinity(-a.inf)
    ELSE a

\* a - b
FSub(a, b) == FAdd(a, Neg(ToNumber(b)))

\* a * b on numbers, infinities and NaN, one of them not a finite number.
MulValues(a, b) ==
    IF a = NaN \/ b = NaN THEN NaN
    ELSE IF a = Zero \/ b = Zero THEN NaN
    ELSE Infinity(SignOf(a) * SignOf(b))

\* a * b
FMul(a, b) ==
    IF IsNum(a) /\ IsNum(b) THEN InRange(Rounded(a.m * b.m, a.e + b.e))
    ELSE IF IsNum(ToNumber(a)) /\ IsNum(ToNumber(b))
    THEN InRange(Rounded(ToNumber(a).m * ToNumber(b).m, ToNumber(a).e + ToNumber(b).e))
    ELSE MulValues(ToNumber(a), ToNumber(b))

\* sign * (num / den) * 2^e rounded: the remainder is the sticky bit.
DivParts(sign, num, den, e) == RoundTo(sign, num \div den, e, num % den # 0)

\* The quotient is developed by k bits, to more than Precision + 1 bits.
DivAt(a, b, k) ==
    DivParts(Sign(a.m) * Sign(b.m), Abs(a.m) * Pow2(k), Abs(b.m), a.e - b.e - k)

\* a / b on numbers, infinities and NaN, with b = 0 or one of them not a
\* finite number.
DivValues(a, b) ==
    IF a = NaN \/ b = NaN THEN NaN
    ELSE IF IsInf(a) THEN (IF IsInf(b) THEN NaN ELSE Infinity(SignOf(a) * SignOf(b)))
    ELSE IF IsInf(b) THEN Zero
    ELSE IF a = Zero THEN NaN
    ELSE Infinity(SignOf(a))

\* a / b
FDiv(a, b) ==
    IF IsNum(a) /\ IsNum(b) /\ b.m # 0
    THEN InRange(DivAt(a, b, Precision + 2 + BitLen(Abs(b.m))))
    ELSE IF IsNum(ToNumber(a)) /\ IsNum(ToNumber(b)) /\ ToNumber(b).m # 0
    THEN InRange(DivAt(ToNumber(a), ToNumber(b),
                       Precision + 2 + BitLen(Abs(ToNumber(b).m))))
    ELSE DivValues(ToNumber(a), ToNumber(b))

\* x > 0 and x >= 0 as JavaScript evaluates them: false on NaN and undefined,
\* null compared as 0.
Gt0(x) == IF IsNum(x) THEN x.m > 0 ELSE x = Infinity(1)

Ge0(x) == IF IsNum(x) THEN x.m >= 0 ELSE x = Infinity(1) \/ x = Null

\* a - b on operands that may be undefined.
JSub(a, b) == IF IsNum(a) /\ IsNum(b) THEN FSub(a, b) ELSE NaN

\* e0 is the smaller exponent of a and b.
LeqAt(a, b, e0) == a.m * Pow2(a.e - e0) <= b.m * Pow2(b.e - e0)

\* a <= b on numbers and infinities.
FLeq(a, b) ==
    IF IsNum(a) /\ IsNum(b) THEN LeqAt(a, b, Min(a.e, b.e))
    ELSE IF IsInf(a) THEN a.inf = -1 \/ b = a
    ELSE IsInf(b) /\ b.inf = 1

\* The hundredths nearest to n / d, the larger count on a tie.
Hundredths(n, d) == (2 * n + d) \div (2 * d)

\* Number.prototype.toFixed(2): the decimal with two fraction digits nearest
\* to x, the larger one on a tie, as a sign and a count of hundredths; NaN
\* and the infinities are written by their names.
ToFixed2(x) ==
    IF IsNum(x)
    THEN [neg   |-> x.m < 0,
          cents |-> IF x.e >= 0 THEN Abs(x.m) * 100 * Pow2(x.e)
                    ELSE Hundredths(Abs(x.m) * 100, Pow2(-x.e))]
    ELSE [name |-> x]

(***************************************************************************)
(* Strings.                                                                *)
(***************************************************************************)
UpperChar(ch) == CASE ch = "a" -> "A" [] ch = "b" -> "B" [] OTHER -> ch

\* String.prototype.toUpperCase
ToUpperCase(s) == [i \in DOMAIN s |-> UpperChar(s[i])]

RECURSIVE TrimStart(_)
TrimStart(s) == IF s # <<>> /\ Head(s) = " " THEN TrimStart(Tail(s)) ELSE s

RECURSIVE TrimEnd(_)
TrimEnd(s) ==
    IF s # <<>> /\ s[Len(s)] = " " THEN TrimEnd(SubSeq(s, 1, Len(s) - 1)) ELSE s

\* String.prototype.trim
Trim(s) == TrimEnd(TrimStart(s))

\* String.prototype.includes
Includes(s, t) ==
    \E i \in 1..(Len(s) - Len(t) + 1) : SubSeq(s, i, i + Len(t) - 1) = t

\* The chart title loadChart writes: `${symbol} - 30 Day Trend`.
TitleOf(symbol) ==
    symbol \o <<" ", "-", " ", "3", "0", " ", "D", "a", "y", " ",
                "T", "r", "e", "n", "d">>

(***************************************************************************)
(* JSON texts.  A text is unparseable, or the value it parses to: null, a  *)
(* number, a string, an object with the fields a position has (undefined   *)
(* where the field is missing) or an array of values.                      *)
(***************************************************************************)
Garbage == [t |-> "garbage"]

JNull == [t |-> "null"]

JUndef == [t |-> "undefined"]

JNum(x) == [t |-> "num", v |-> x]

JStr(s) == [t |-> "str", s |-> s]

JObj(symbol, qty, cost) == [t |-> "obj", symbol |-> symbol, qty |-> qty, cost |-> cost]

JArr(items) == [t |-> "arr", items |-> items]

\* JavaScript truthiness of a parsed value.
Truthy(j) ==
    CASE j.t = "num" -> j.v.m # 0
      [] j.t = "str" -> j.s # <<>>
      [] j.t \in {"obj", "arr"} -> TRUE
      [] OTHER -> FALSE

\* JSON.stringify of a number-typed value: a finite number is written as the
\* shortest decimal that reads back as itself, NaN and the infinities are
\* written as null.
JValue(x) == IF IsNum(x) THEN JNum(x) ELSE JNull

\* JSON.stringify(portfolio): the array of the positions' objects.
Stringify(positions) ==
    JArr([i \in DOMAIN positions |->
            JObj(JStr(positions[i].symbol), JValue(positions[i].qty),
                 JValue(positions[i].cost))])

\* The value a parsed number or null is.
ValueOf(j) == IF j.t = "num" THEN j.v ELSE Null

\* The position an element object of a parsed array is, for elements whose
\* symbol is a string and whose qty and cost are numbers or null.
PositionOf(item) ==
    [symbol |-> item.symbol.s, qty |-> ValueOf(item.qty), cost |-> ValueOf(item.cost)]

PositionsOf(items) == [i \in DOMAIN items |-> PositionOf(items[i])]

(***************************************************************************)
(* State.                                                                  *)
(***************************************************************************)
VARIABLES
    portfolio,    \* the ledger: the array of {symbol, qty, cost}
    storage,      \* localStorage's 'portfolio' item: a JSON text, or JNull
    stockData,    \* the price cache: symbol -> {price, change, history}
    chartTitle,   \* chartTitle.textContent
    tableView,    \* the rows of #portfolio-table
    summaryView,  \* the texts of the four summary elements
    download,     \* the text of the last backup file written, or JNull
    inflight,     \* bag of provider requests awaiting their response
    batches,      \* the fetchAllData runs: slot -> run, or Idle
    lastEvent,    \* the last submit, export or import and the feedback it gave
    basis         \* per merged symbol: the exact sums of its merges

vars == <<portfolio, storage, stockData, chartTitle, tableView, summaryView,
          download, inflight, batches, lastEvent, basis>>

Idle == [pc |-> "idle"]

Slots == 1..MaxBatches

(***************************************************************************)
(* Rendering.                                                              *)
(***************************************************************************)
Loading == [text |-> "Loading..."]

Dash == [text |-> "-"]

Untouched == [text |-> "(initial)"]

Dollars(x) == [text |-> "$", amount |-> ToFixed2(x)]

Percent(x) == [text |-> "%", amount |-> ToFixed2(x)]

\* The cells of a row, from the values renderTable computed for it.
Row(stock, currentPrice, currentValue, pl) ==
    [symbol  |-> stock.symbol,
     qty     |-> stock.qty,
     cost    |-> Dollars(stock.cost),
     price   |-> IF Gt0(currentPrice) THEN Dollars(currentPrice) ELSE Loading,
     value   |-> IF Gt0(currentValue) THEN Dollars(currentValue) ELSE Dash,
     pl      |-> IF Gt0(currentPrice) THEN Dollars(pl) ELSE Dash,
     plClass |-> IF Gt0(currentPrice)
                 THEN (IF Ge0(pl) THEN "positive" ELSE "negative")
                 ELSE "neutral"]

\* A row whose price is usable (> 0): the value and the profit are computed.
PricedRow(stock, currentPrice, currentValue) ==
    Row(stock, currentPrice, currentValue,
        FSub(currentValue, FMul(stock.cost, stock.qty)))

\* stockData[symbol].price, or the 0 of the default {price: 0, change: 0}.
PriceOf(cache, symbol) == IF symbol \in DOMAIN cache THEN cache[symbol].price ELSE Zero

\* One row of renderTable.
RowOf(stock, currentPrice) ==
    IF Gt0(currentPrice)
    THEN PricedRow(stock, currentPrice, FMul(currentPrice, stock.qty))
    ELSE Row(stock, currentPrice, Zero, Zero)

\* renderTable(): the table body rebuilt from the ledger and the cache.
RenderTable(positions, cache) ==
    [i \in DOMAIN positions |->
        RowOf(positions[i], PriceOf(cache, positions[i].symbol))]

\* A defect of the loop's test: price >= 0 for price > 0.
SummaryStepFromZero(acc, stock, price) ==
    [totalInv   |-> FAdd(acc.totalInv, FMul(stock.qty, stock.cost)),
     currentVal |-> IF Ge0(price) THEN FAdd(acc.currentVal, FMul(stock.qty, price))
                    ELSE acc.currentVal,
     hasData    |-> acc.hasData \/ Ge0(price)]

\* One iteration of updateSummary's forEach, on the price read for the stock.
SummaryStep(acc, stock, price) ==
    [totalInv   |-> FAdd(acc.totalInv, FMul(stock.qty, stock.cost)),
     currentVal |-> IF Gt0(price) THEN FAdd(acc.currentVal, FMul(stock.qty, price))
                    ELSE acc.currentVal,
     hasData    |-> acc.hasData \/ Gt0(price)]

RECURSIVE SummaryLoop(_, _, _)
SummaryLoop(acc, positions, cache) ==
    IF positions = <<>> THEN acc
    ELSE SummaryLoop(SummaryStep(acc, Head(positions),
                                 PriceOf(cache, Head(positions).symbol)),
                     Tail(positions), cache)

\* What updateSummary computes from the loop's totals and their difference.
Totals(acc, totalPl) ==
    [totalInv       |-> acc.totalInv,
     currentVal     |-> acc.currentVal,
     hasData        |-> acc.hasData,
     totalPl        |-> totalPl,
     totalPlPercent |-> IF Gt0(acc.totalInv)
                        THEN FMul(FDiv(totalPl, acc.totalInv), Num(100))
                        ELSE Zero]

TotalsOf(acc) == Totals(acc, FSub(acc.currentVal, acc.totalInv))

\* The values updateSummary computes before it formats them.
Summarize(positions, cache) ==
    TotalsOf(SummaryLoop([totalInv |-> Zero, currentVal |-> Zero, hasData |-> FALSE],
                         positions, cache))

\* The four summary elements after updateSummary wrote the values s, given what
\* they showed before.
Shown(view, s) ==
    IF s.hasData
    THEN [totalInvestment |-> Dollars(s.totalInv),
          currentValue    |-> Dollars(s.currentVal),
          totalPl         |-> Dollars(s.totalPl),
          totalPlPercent  |-> Percent(s.totalPlPercent),
          plClass         |-> IF Ge0(s.totalPl) THEN "positive" ELSE "negative"]
    ELSE [view EXCEPT !.totalInvestment = Dollars(s.totalInv),
                      !.currentValue = Loading]

\* updateSummary()
UpdateSummary(view, positions, cache) == Shown(view, Summarize(positions, cache))

\* The summary elements as the page's markup leaves them.
InitialSummary ==
    [totalInvestment |-> Untouched, currentValue |-> Untouched,
     totalPl |-> Untouched, totalPlPercent |-> Untouched, plClass |-> "(initial)"]

(***************************************************************************)
(* Provider requests and batch refreshes.                                  *)
(***************************************************************************)
\* A request fetchStockData has issued: by a batch (its slot), by addStock
\* ("merge") or by loadChart ("chart").
Request(owner, slot, symbol) == [owner |-> owner, slot |-> slot, symbol |-> symbol]

Issue(bag, req) == bag (+) SetToBag({req})

RECURSIVE Copies(_, _)
Copies(bag, reqs) ==
    IF reqs = {} THEN 0
    ELSE LET r == CHOOSE r \in reqs : TRUE
         IN  CopiesIn(r, bag) + Copies(bag, reqs \ {r})

\* Requests pending that no batch awaits.
Detached(bag) == Copies(bag, {r \in BagToSet(bag) : r.owner # "batch"})

SymbolsOf(positions) == [i \in DOMAIN positions |-> positions[i].symbol]

FreeSlot(bs) == CHOOSE k \in Slots : bs[k] = Idle /\ \A j \in 1..(k - 1) : bs[j] # Idle

Running(bs) == {k \in Slots : bs[k] # Idle}

\* The array object a running batch iterates is the ledger's array (live) until
\* `portfolio` is assigned another array; a push reaches the live iterations.
Pushed(bs, symbol) ==
    [k \in Slots |-> IF bs[k] # Idle /\ bs[k].live
                     THEN [bs[k] EXCEPT !.arr = Append(@, symbol)]
                     ELSE bs[k]]

Reassigned(bs) ==
    [k \in Slots |-> IF bs[k] # Idle THEN [bs[k] EXCEPT !.live = FALSE] ELSE bs[k]]

\* A batch in slot k that has just requested the first symbol of arr.
Started(bs, bag, k, arr) ==
    [batches  |-> [bs EXCEPT ![k] = [pc    |-> "fetch",
                                     arr   |-> arr,
                                     live  |-> TRUE,
                                     idx   |-> 1,
                                     asked |-> <<arr[1]>>]],
     inflight |-> Issue(bag, Request("batch", k, arr[1]))]

\* fetchAllData() up to its first await: nothing to do on an empty array, else
\* the first symbol's request is out and the run waits for it.
FetchAllData(bs, bag, positions) ==
    IF positions = <<>> THEN [batches |-> bs, inflight |-> bag]
    ELSE Started(bs, bag, FreeSlot(bs), SymbolsOf(positions))

\* What the provider may answer.  net: fetch() and response.json() resolve;
\* result: json.chart.result[0].meta exists; quote: result.indicators.quote[0]
\* exists; price, prev, timestamp, close: the fields read, Undefined if missing.
Response(net, result, quote, price, prev, timestamp, close) ==
    [net |-> net, result |-> result, quote |-> quote, price |-> price,
     prev |-> prev, timestamp |-> timestamp, close |-> close]

\* Whether fetchStockData's try block throws on the response.
Throws(resp) == ~resp.net \/ ~resp.result \/ ~resp.quote

\* The record fetchStockData stores for a response that does not throw.
RecordOf(resp) ==
    [price   |-> resp.price,
     change  |-> JSub(resp.price, resp.prev),
     history |-> [timestamp |-> resp.timestamp, close |-> resp.close]]

(***************************************************************************)
(* Observers of the merges: for a symbol whose position was created by a   *)
(* merge and neither removed nor restored since, the exact sums of the     *)
(* merged quantities and of quantity * cost, and whether every arithmetic  *)
(* operation of its merges was exact.                                      *)
(***************************************************************************)
\* The integer a number with a non-negative exponent is.
IntOf(x) == x.m * Pow2(x.e)

ExactMul(a, b) == IsNum(a) /\ IsNum(b) /\ FMul(a, b) = Norm(a.m * b.m, a.e + b.e)

ExactAddAt(a, b, e0) ==
    FAdd(a, b) = Norm(a.m * Pow2(a.e - e0) + b.m * Pow2(b.e - e0), e0)

ExactAdd(a, b) == IsNum(a) /\ IsNum(b) /\ ExactAddAt(a, b, Min(a.e, b.e))

ExactQuotient(r, a, b) == IsNum(r) /\ Norm(r.m * b.m, r.e + b.e) = a

ExactDiv(a, b) == ExactQuotient(FDiv(a, b), a, b)

\* No operation of the merge of a position worth p1 with a lot worth p2 rounds.
ExactParts(existing, qty, p1, p2) ==
    /\ ExactAdd(p1, p2)
    /\ ExactAdd(existing.qty, qty)
    /\ ExactDiv(FAdd(p1, p2), FAdd(existing.qty, qty))

ExactMerge(existing, qty, cost) ==
    /\ ExactMul(existing.qty, existing.cost)
    /\ ExactMul(qty, cost)
    /\ ExactParts(existing, qty, FMul(existing.qty, existing.cost), FMul(qty, cost))

Without(f, x) == [y \in DOMAIN f \ {x} |-> f[y]]

\* The sums of a symbol after one more merge into its position existing.
BasisMerged(b, existing, qty, cost) ==
    [q     |-> b.q + IntOf(qty),
     qc    |-> b.qc + IntOf(qty) * IntOf(cost),
     exact |-> b.exact /\ ExactMerge(existing, qty, cost)]

(***************************************************************************)
(* The ledger.                                                             *)
(***************************************************************************)
\* portfolio.find(s => s.symbol === symbol): the index of the first match, 0
\* when there is none.
FindIndex(positions, symbol) ==
    IF \E i \in DOMAIN positions : positions[i].symbol = symbol
    THEN CHOOSE i \in DOMAIN positions :
            /\ positions[i].symbol = symbol
            /\ \A j \in 1..(i - 1) : positions[j].symbol # symbol
    ELSE 0

\* The existing position with the new total quantity and total cost.
Averaged(existing, totalCostCoordinates, totalQty) ==
    [symbol |-> existing.symbol,
     qty    |-> totalQty,
     cost   |-> FDiv(totalCostCoordinates, totalQty)]

\* A defect of the merge: the plain mean of the two costs.
MergedUnweighted(existing, qty, cost) ==
    [symbol |-> existing.symbol,
     qty    |-> FAdd(existing.qty, qty),
     cost   |-> FDiv(FAdd(existing.cost, cost), Num(2))]

\* The existing position after addStock merged qty at cost into it.
Merged(existing, qty, cost) ==
    Averaged(existing,
             FAdd(FMul(existing.qty, existing.cost), FMul(qty, cost)),
             FAdd(existing.qty, qty))

\* The ledger after addStock(symbol, qty, cost), i being what find returned.
AddedAt(positions, i, symbol, qty, cost) ==
    IF i # 0 THEN [positions EXCEPT ![i] = Merged(positions[i], qty, cost)]
    ELSE Append(positions, [symbol |-> symbol, qty |-> qty, cost |-> cost])

Added(positions, symbol, qty, cost) ==
    AddedAt(positions, FindIndex(positions, symbol), symbol, qty, cost)

\* The observers' sums after the same call.
BasisAddedAt(b, positions, i, symbol, qty, cost) ==
    IF i = 0
    THEN (symbol :> [q |-> IntOf(qty), qc |-> IntOf(qty) * IntOf(cost),
                     exact |-> TRUE]) @@ b
    ELSE IF symbol \in DOMAIN b
    THEN (IF IsNum(positions[i].qty) /\ IsNum(positions[i].cost)
          THEN [b EXCEPT ![symbol] = BasisMerged(@, positions[i], qty, cost)]
          ELSE Without(b, symbol))
    ELSE b

\* addStock(symbol, qty, cost)
AddStock(symbol, qty, cost) ==
    /\ portfolio' = Added(portfolio, symbol, qty, cost)
    /\ batches' = IF FindIndex(portfolio, symbol) = 0 THEN Pushed(batches, symbol)
                  ELSE batches
    /\ storage' = Stringify(portfolio')
    /\ tableView' = RenderTable(portfolio', stockData)
    /\ inflight' = Issue(inflight, Request("merge", 0, symbol))
    /\ basis' = BasisAddedAt(basis, portfolio, FindIndex(portfolio, symbol),
                             symbol, qty, cost)
    /\ UNCHANGED <<stockData, chartTitle, summaryView, download>>

\* A defect of the validation: quantity >= 0 for quantity > 0.
FormValidFromZero(ticker, quantity, cost) ==
    ticker # <<>> /\ Ge0(quantity) /\ Ge0(cost)

\* The form's validation: ticker && quantity > 0 && cost >= 0.
FormValid(ticker, quantity, cost) == ticker # <<>> /\ Gt0(quantity) /\ Ge0(cost)

\* The quantity a merge of qty gives the position at index i (0: a new one).
QtyAt(positions, i, qty) == IF i # 0 THEN FAdd(positions[i].qty, qty) ELSE qty

QtyAfter(positions, symbol, qty) == QtyAt(positions, FindIndex(positions, symbol), qty)

\* The submit listener once the ticker is read.  A merge is submitted only
\* while the merged quantity stays within limit.
SubmitTicker(limit, ticker, quantity, cost) ==
    IF FormValid(ticker, quantity, cost)
    THEN /\ Detached(inflight) < MaxDetached
         /\ FLeq(QtyAfter(portfolio, ticker, quantity), limit)
         /\ AddStock(ticker, quantity, cost)
         /\ lastEvent' = [op |-> "submit", note |-> "form reset"]
    ELSE /\ lastEvent' = [op |-> "submit", note |-> "ignored"]
         /\ UNCHANGED <<portfolio, storage, stockData, chartTitle, tableView,
                        summaryView, download, inflight, batches, basis>>

\* The form's submit listener, on the three fields' contents: the ticker text
\* and what parseFloat made of the two number fields.
Submit(limit, raw, quantity, cost) ==
    SubmitTicker(Num(limit), Trim(ToUpperCase(raw)), quantity, cost)

\* The same listener with no limit on the merged quantity.
SubmitAny(raw, quantity, cost) ==
    SubmitTicker(Infinity(1), Trim(ToUpperCase(raw)), quantity, cost)

\* The symbols of the rows on display: those a click can reach.
RowSymbols == {tableView[i].symbol : i \in DOMAIN tableView}

\* A defect of the filter: === for !==.
RemovedOthers(positions, symbol) == SelectSeq(positions, LAMBDA s : s.symbol = symbol)

\* The ledger after deleteStock(symbol).
Removed(positions, symbol) == SelectSeq(positions, LAMBDA s : s.symbol # symbol)

\* deleteStock(symbol): a row's delete button calls it with the row's symbol.
DeleteStock(symbol) ==
    /\ portfolio' = Removed(portfolio, symbol)
    /\ batches' = Reassigned(batches)
    /\ storage' = Stringify(portfolio')
    /\ tableView' = RenderTable(portfolio', stockData)
    /\ summaryView' = UpdateSummary(summaryView, portfolio', stockData)
    /\ basis' = Without(basis, symbol)
    /\ UNCHANGED <<stockData, chartTitle, download, inflight, lastEvent>>

(***************************************************************************)
(* Backup export and import.                                               *)
(***************************************************************************)
\* exportBtn's click listener.
Export ==
    /\ IF portfolio = <<>>
       THEN /\ lastEvent' = [op |-> "export", note |-> "No data to export!"]
            /\ UNCHANGED download
       ELSE /\ download' = Stringify(portfolio)
            /\ lastEvent' = [op |-> "export", note |-> "file written"]
    /\ UNCHANGED <<portfolio, storage, stockData, chartTitle, tableView, summaryView,
                   inflight, batches, basis>>

\* item.symbol && item.qty && item.cost on one element: reading a property of
\* null throws, a value without the property reads undefined.
ItemCheck(item) ==
    IF item.t = "null" THEN "throws"
    ELSE IF item.t # "obj" THEN "false"
    ELSE IF Truthy(item.symbol) /\ Truthy(item.qty) /\ Truthy(item.cost) THEN "true"
    ELSE "false"

\* importedData.every(...): stops at the first element that fails or throws.
RECURSIVE Every(_)
Every(items) ==
    IF items = <<>> THEN "true"
    ELSE IF ItemCheck(Head(items)) = "true" THEN Every(Tail(items))
    ELSE ItemCheck(Head(items))

\* What onload tells once every returned valid ("throws": it threw instead).
Validated(valid, confirmed) ==
    IF valid = "throws" THEN "Error parsing JSON file."
    ELSE IF valid = "false" THEN "Invalid file format: Missing required fields."
    ELSE IF confirmed THEN "Portfolio restored successfully!"
    ELSE "declined"

\* What reader.onload decides on a file's text and the user's answer to the
\* confirm dialog.
ImportOutcome(file, confirmed) ==
    IF file.t = "garbage" THEN "Error parsing JSON file."
    ELSE IF file.t # "arr" THEN "Invalid file format: Not a list of stocks."
    ELSE Validated(Every(file.items), confirmed)

\* The confirmed replacement of the ledger by the imported positions.
Restore(positions) ==
    /\ positions # <<>> => Running(batches) # Slots
    /\ portfolio' = positions
    /\ storage' = Stringify(positions)
    /\ tableView' = RenderTable(positions, stockData)
    /\ summaryView' = UpdateSummary(summaryView, positions, stockData)
    /\ batches' = FetchAllData(Reassigned(batches), inflight, positions).batches
    /\ inflight' = FetchAllData(Reassigned(batches), inflight, positions).inflight
    /\ basis' = <<>>
    /\ UNCHANGED <<stockData, chartTitle, download>>

\* importInput's change listener followed by the reader's onload handler.
Import(file, confirmed) ==
    /\ lastEvent' = [op |-> "import", note |-> ImportOutcome(file, confirmed)]
    /\ IF ImportOutcome(file, confirmed) = "Portfolio restored successfully!"
       THEN Restore(PositionsOf(file.items))
       ELSE UNCHANGED <<portfolio, storage, stockData, chartTitle, tableView,
                        summaryView, download, inflight, batches, basis>>

(***************************************************************************)
(* Page load.                                                              *)
(***************************************************************************)
\* JSON.parse(localStorage.getItem('portfolio')) || []
Loaded(blob) == IF blob = JNull THEN <<>> ELSE PositionsOf(blob.items)

AllIdle == [k \in Slots |-> Idle]

\* The script's state once it ran and DOMContentLoaded was handled, on the
\* positions read from storage: renderTable(), updateSummary(), and
\* fetchAllData() if the ledger is not empty.
PageLoaded(positions) ==
    [portfolio   |-> positions,
     stockData   |-> <<>>,
     chartTitle  |-> <<>>,
     tableView   |-> RenderTable(positions, <<>>),
     summaryView |-> UpdateSummary(InitialSummary, positions, <<>>),
     inflight    |-> FetchAllData(AllIdle, EmptyBag, positions).inflight,
     batches     |-> FetchAllData(AllIdle, EmptyBag, positions).batches,
     lastEvent   |-> [op |-> "load", note |-> ""]]

\* The first page load: nothing is stored.
InitAs(p) ==
    /\ storage = JNull
    /\ download = JNull
    /\ basis = <<>>
    /\ portfolio = p.portfolio
    /\ stockData = p.stockData
    /\ chartTitle = p.chartTitle
    /\ tableView = p.tableView
    /\ summaryView = p.summaryView
    /\ inflight = p.inflight
    /\ batches = p.batches
    /\ lastEvent = p.lastEvent

Init == InitAs(PageLoaded(<<>>))

ReloadAs(p) ==
    /\ portfolio' = p.portfolio
    /\ stockData' = p.stockData
    /\ chartTitle' = p.chartTitle
    /\ tableView' = p.tableView
    /\ summaryView' = p.summaryView
    /\ inflight' = p.inflight
    /\ batches' = p.batches
    /\ lastEvent' = p.lastEvent
    /\ UNCHANGED <<storage, download, basis>>

\* The page is loaded again: the script's state is rebuilt from storage, and
\* what the previous page awaited is gone with it.
Reload == ReloadAs(PageLoaded(Loaded(storage)))

(***************************************************************************)
(* Fetching.                                                               *)
(***************************************************************************)
\* loadChart(symbol), from a click on a row, up to its await.
LoadChart(symbol) ==
    /\ symbol \in RowSymbols
    /\ chartTitle' = TitleOf(symbol)
    /\ IF symbol \notin DOMAIN stockData
       THEN /\ Detached(inflight) < MaxDetached
            /\ inflight' = Issue(inflight, Request("chart", 0, symbol))
       ELSE UNCHANGED inflight
    /\ UNCHANGED <<portfolio, storage, stockData, tableView, summaryView, download,
                   batches, lastEvent, basis>>

\* A defect of the loop: the batch is not resumed when its request ends.
ResumedNever(bs, req) == bs

\* The batch that awaited the request goes on to its 500 ms delay.
Resumed(bs, req) ==
    IF req.owner = "batch" THEN [bs EXCEPT ![req.slot].pc = "sleep"] ELSE bs

\* A defect of the cache write: a record that exists gets the new price and
\* change and keeps its history.
RespondKeepingHistory(req, resp) ==
    /\ BagIn(req, inflight)
    /\ inflight' = inflight (-) SetToBag({req})
    /\ batches' = Resumed(batches, req)
    /\ IF Throws(resp)
       THEN UNCHANGED <<stockData, tableView, summaryView, chartTitle>>
       ELSE /\ stockData' =
                  IF req.symbol \in DOMAIN stockData
                  THEN [stockData EXCEPT ![req.symbol].price = RecordOf(resp).price,
                                         ![req.symbol].change = RecordOf(resp).change]
                  ELSE (req.symbol :> RecordOf(resp)) @@ stockData
            /\ tableView' = RenderTable(portfolio, stockData')
            /\ summaryView' = UpdateSummary(summaryView, portfolio, stockData')
            /\ chartTitle' = IF Includes(chartTitle, req.symbol)
                             THEN TitleOf(req.symbol) ELSE chartTitle
    /\ UNCHANGED <<portfolio, storage, download, lastEvent, basis>>

\* The provider's response to a pending request arrives and fetchStockData
\* runs to its end, and with it its caller up to the caller's next await.
Respond(req, resp) ==
    /\ BagIn(req, inflight)
    /\ inflight' = inflight (-) SetToBag({req})
    /\ batches' = Resumed(batches, req)
    /\ IF Throws(resp)
       THEN UNCHANGED <<stockData, tableView, summaryView, chartTitle>>
       ELSE /\ stockData' = (req.symbol :> RecordOf(resp)) @@ stockData
            /\ tableView' = RenderTable(portfolio, stockData')
            /\ summaryView' = UpdateSummary(summaryView, portfolio, stockData')
            /\ chartTitle' = IF Includes(chartTitle, req.symbol)
                             THEN TitleOf(req.symbol) ELSE chartTitle
    /\ UNCHANGED <<portfolio, storage, download, lastEvent, basis>>

\* A defect of the loop: the element just requested is taken again.
SameSymbol(b) == b.arr[b.idx]

\* The element the for-of loop of batch b takes next.
NextSymbol(b) == b.arr[b.idx + 1]

\* Batch b once it requested that element.
NextRequest(b) ==
    [b EXCEPT !.pc = "fetch", !.idx = @ + 1, !.asked = Append(@, NextSymbol(b))]

\* The 500 ms timer of a batch fires: the loop takes the array's next element
\* and requests it, or ends.
Timer(k) ==
    /\ batches[k] # Idle
    /\ batches[k].pc = "sleep"
    /\ IF batches[k].idx < Len(batches[k].arr)
       THEN /\ batches' = [batches EXCEPT ![k] = NextRequest(@)]
            /\ inflight' = Issue(inflight, Request("batch", k, NextSymbol(batches[k])))
       ELSE /\ batches' = [batches EXCEPT ![k] = Idle]
            /\ UNCHANGED inflight
    /\ UNCHANGED <<portfolio, storage, stockData, chartTitle, tableView, summaryView,
                   download, lastEvent, basis>>

(***************************************************************************)
(* The environment: what the user types, picks and clicks, and what the    *)
(* provider answers.  Each specification below runs the same handlers in   *)
(* an environment that offers the inputs its claims are about.             *)
(***************************************************************************)
History1 == [series |-> 1]

\* The request fails: network error, or a body that is not JSON.
NetworkError == Response(FALSE, FALSE, FALSE, Undefined, Undefined, Undefined, Undefined)

\* The body has the quote's meta but no indicators.
NoHistory == Response(TRUE, TRUE, FALSE, Num(3), Num(2), Undefined, Undefined)

\* The body's meta has no regularMarketPrice.
NoPrice == Response(TRUE, TRUE, TRUE, Undefined, Num(2), History1, History1)

\* A complete body with the given price and a previous close of 2.
Quote(price) == Response(TRUE, TRUE, TRUE, Num(price), Num(2), History1, History1)

History2 == [series |-> 2]

\* Another complete body: a price of 1 and a previous close of 3.
OtherQuote == Response(TRUE, TRUE, TRUE, Num(1), Num(3), History2, History2)

\* -0.5: a quantity no sum with the form's whole quantities brings to 0.
MinusHalf == [m |-> -1, e |-> -1]

StrA == JStr(<<"A">>)

StrB == JStr(<<"B">>)

Item(symbol, qty, cost) == JObj(symbol, JNum(Num(qty)), JNum(Num(cost)))

\* The files the user can pick: those offered and the backup last written.
WithDownload(files) == files \cup (IF download = JNull THEN {} ELSE {download})

(***************************************************************************)
(* Spec: refreshes.  Restores of one and of two positions, merges of a     *)
(* ticker, removes and reloads while batches run, every kind of response.  *)
(***************************************************************************)
Tickers == {<<"a">>, <<"B">>}

Responses == {NetworkError, NoHistory, NoPrice, Quote(3)}

RestoreFiles ==
    { JArr(<<Item(StrB, 1, 1)>>),
      JArr(<<Item(StrB, 1, 1), Item(StrA, 1, 1)>>) }

Next ==
    \/ Submit(MaxQty, <<"a">>, Num(1), Num(1))
    \/ \E symbol \in RowSymbols : DeleteStock(symbol)
    \/ \E file \in RestoreFiles : Import(file, TRUE)
    \/ Reload
    \/ \E req \in BagToSet(inflight), resp \in Responses : Respond(req, resp)
    \/ \E k \in Slots : Timer(k)

Spec == Init /\ [][Next]_vars

(***************************************************************************)
(* SpecBatch: the course of a batch.  The same, with a provider that is    *)
(* down or answers a complete body.                                        *)
(***************************************************************************)
BatchResponses == {NetworkError, Quote(3)}

NextBatch ==
    \/ Submit(MaxQty, <<"a">>, Num(1), Num(1))
    \/ \E symbol \in RowSymbols : DeleteStock(symbol)
    \/ \E file \in RestoreFiles : Import(file, TRUE)
    \/ Reload
    \/ \E req \in BagToSet(inflight), resp \in BatchResponses : Respond(req, resp)
    \/ \E k \in Slots : Timer(k)

SpecBatch == Init /\ [][NextBatch]_vars

(***************************************************************************)
(* SpecRemove: removes.  deleteStock is called with the symbol of a        *)
(* position or with another one, between merges, restores and fetches.     *)
(***************************************************************************)
RemoveSymbols == {<<"A">>, <<"B">>}

NextRemove ==
    \/ Submit(MaxQty, <<"a">>, Num(1), Num(1))
    \/ \E symbol \in RemoveSymbols : DeleteStock(symbol)
    \/ \E file \in RestoreFiles : Import(file, TRUE)
    \/ \E req \in BagToSet(inflight), resp \in BatchResponses : Respond(req, resp)
    \/ \E k \in Slots : Timer(k)

SpecRemove == Init /\ [][NextRemove]_vars

(***************************************************************************)
(* SpecLive: the steps of SpecRemove, where every pending request is       *)
(* answered in the end and every delay timer that was set fires.           *)
(***************************************************************************)
LiveRequests ==
    {Request("batch", k, symbol) : k \in Slots, symbol \in RemoveSymbols}
        \cup {Request("merge", 0, symbol) : symbol \in RemoveSymbols}

\* The provider answers the request, one way or another.
Answer(req) == \E resp \in BatchResponses : Respond(req, resp)

Fairness ==
    /\ \A req \in LiveRequests : WF_vars(Answer(req))
    /\ \A k \in Slots : WF_vars(Timer(k))

SpecLive == Init /\ [][NextRemove]_vars /\ Fairness

(***************************************************************************)
(* SpecStore: the stored blob.  The ledger is merged into, with lots as    *)
(* large as the largest finite number, removed from and restored, and the  *)
(* page is loaded again from what was stored.                              *)
(***************************************************************************)
NextStore ==
    \/ SubmitAny(<<"a">>, MaxValue, Zero)
    \/ \E symbol \in RowSymbols : DeleteStock(symbol)
    \/ \E file \in RestoreFiles : Import(file, TRUE)
    \/ Reload
    \/ \E req \in BagToSet(inflight), resp \in BatchResponses : Respond(req, resp)
    \/ \E k \in Slots : Timer(k)

SpecStore == Init /\ [][NextStore]_vars

(***************************************************************************)
(* SpecCache: the cache.  Requests of batches and merges overlap, for the   *)
(* same symbol too, and are answered in any order with an error or with    *)
(* bodies that differ in every field.                                      *)
(***************************************************************************)
CacheResponses == {NetworkError, Quote(3), OtherQuote}

NextCache ==
    \/ Submit(MaxQty, <<"a">>, Num(1), Num(1))
    \/ \E file \in RestoreFiles : Import(file, TRUE)
    \/ \E req \in BagToSet(inflight), resp \in CacheResponses : Respond(req, resp)
    \/ \E k \in Slots : Timer(k)

SpecCache == Init /\ [][NextCache]_vars

(***************************************************************************)
(* SpecFetch: every way to a request.  Merges, chart loads and batches     *)
(* started by restores request prices, between removes, and the provider   *)
(* answers with an error, with a body without a price or with a quote.     *)
(***************************************************************************)
FetchResponses == {NetworkError, NoPrice, Quote(3)}

NextFetch ==
    \/ Submit(MaxQty, <<"a">>, Num(1), Num(1))
    \/ \E symbol \in RowSymbols : DeleteStock(symbol)
    \/ \E symbol \in RowSymbols : LoadChart(symbol)
    \/ \E file \in RestoreFiles : Import(file, TRUE)
    \/ \E req \in BagToSet(inflight), resp \in FetchResponses : Respond(req, resp)
    \/ \E k \in Slots : Timer(k)

SpecFetch == Init /\ [][NextFetch]_vars

(***************************************************************************)
(* SpecMerge: merges.  One ticker and a blank one, quantities and costs    *)
(* valid and invalid, merged up to MaxMerged; the provider is down.        *)
(***************************************************************************)
MergeTickers == {<<" ", "a">>, <<" ">>}

MergeQtys == {NaN, Num(0), Num(1), Num(2)}

MergeCosts == {NaN, Num(-1), Num(0), Num(1), Num(3)}

NextMerge ==
    \/ \E raw \in MergeTickers, q \in MergeQtys, c \in MergeCosts :
          Submit(MaxMerged, raw, q, c)
    \/ \E symbol \in RowSymbols : DeleteStock(symbol)
    \/ \E symbol \in RowSymbols : LoadChart(symbol)
    \/ \E req \in BagToSet(inflight) : Respond(req, NetworkError)
    \/ Reload
    \/ \E k \in Slots : Timer(k)

SpecMerge == Init /\ [][NextMerge]_vars

(***************************************************************************)
(* SpecBackup: backups.  Export and import of files of every shape; the    *)
(* provider is down.                                                       *)
(***************************************************************************)
BackupFiles ==
    { Garbage,
      Item(StrA, 1, 1),
      JArr(<<>>),
      JArr(<<JNull>>),
      JArr(<<JNum(Num(1))>>),
      JArr(<<JObj(StrA, JNum(Num(1)), JUndef)>>),
      JArr(<<JObj(StrA, JNum(Num(0)), JNum(Num(1)))>>),
      JArr(<<JObj(JStr(<<>>), JNum(Num(1)), JNum(Num(1)))>>),
      JArr(<<Item(StrA, 1, 1), JNull>>),
      JArr(<<JObj(StrA, JNull, JNum(Num(1))), JNull>>),
      JArr(<<Item(StrB, 2, 1), Item(StrA, 1, 3)>>),
      JArr(<<JObj(StrA, JNum(MinusHalf), JNum(Num(1)))>>),
      JArr(<<Item(StrA, 1, -1)>>),
      JArr(<<Item(StrA, 1, 1), Item(StrA, 1, 3)>>),
      JArr(<<Item(JStr(<<"a">>), 1, 1)>>) }

NextBackup ==
    \/ \E c \in {Num(0), Num(1)} : Submit(MaxQty, <<"a">>, Num(1), c)
    \/ \E symbol \in RowSymbols : DeleteStock(symbol)
    \/ Export
    \/ \E file \in WithDownload(BackupFiles), confirmed \in BOOLEAN :
          Import(file, confirmed)
    \/ \E req \in BagToSet(inflight) : Respond(req, NetworkError)
    \/ \E k \in Slots : Timer(k)

SpecBackup == Init /\ [][NextBackup]_vars

(***************************************************************************)
(* SpecValue: valuation.  Two tickers, costs of 0 and 1, and responses     *)
(* with a price of 0, a price of 3 and no price.                           *)
(***************************************************************************)
ValueResponses == {NoPrice, Quote(0), Quote(3)}

NextValue ==
    \/ \E raw \in Tickers, c \in {Num(0), Num(1)} :
          Submit(MaxQty, raw, Num(1), c)
    \/ \E symbol \in RowSymbols : DeleteStock(symbol)
    \/ \E req \in BagToSet(inflight), resp \in ValueResponses : Respond(req, resp)

SpecValue == Init /\ [][NextValue]_vars

(***************************************************************************)
(* C1: the weighted-average merge.                                         *)
(***************************************************************************)
\* The positions whose merges the observers have followed.
Tracked == {i \in DOMAIN portfolio : portfolio[i].symbol \in DOMAIN basis}

\* The number nearest to n / d, for integers n and d > 0.
NearestQuotient(n, d) == FDiv([m |-> n, e |-> 0], [m |-> d, e |-> 0])

\* C1, as stated: after valid merges of one symbol, in whatever order and
\* with no remove or restore in between, the position's quantity is the sum
\* of the merged quantities and its cost is Sum(qty_i * cost_i) / Sum(qty_i),
\* each as the number nearest to that value.
C1_WeightedAverage ==
    \A i \in Tracked :
        /\ portfolio[i].qty = Num(basis[portfolio[i].symbol].q)
        /\ portfolio[i].cost = NearestQuotient(basis[portfolio[i].symbol].qc,
                                               basis[portfolio[i].symbol].q)

\* C1, amended: the same, exactly, for the merges none of whose products, sums
\* and quotients had to be rounded: the quantity is Sum(qty_i) and the cost
\* times Sum(qty_i) is Sum(qty_i * cost_i), whatever the order of the merges.
C1_ExactWeightedAverage ==
    \A i \in Tracked :
        basis[portfolio[i].symbol].exact =>
            /\ portfolio[i].qty = Norm(basis[portfolio[i].symbol].q, 0)
            /\ Norm(portfolio[i].cost.m * basis[portfolio[i].symbol].q,
                    portfolio[i].cost.e)
                 = Norm(basis[portfolio[i].symbol].qc, 0)

\* Lots of 1 at 0 and of 2 at 3, merged exactly: 3 at 2.
C1_Witness ==
    \E i \in Tracked :
        /\ basis[portfolio[i].symbol].exact
        /\ basis[portfolio[i].symbol].q = 3
        /\ basis[portfolio[i].symbol].qc = 6
        /\ portfolio[i].qty = Num(3)
        /\ portfolio[i].cost = Num(2)

(***************************************************************************)
(* C2: invalid merges.                                                     *)
(***************************************************************************)
Blank(raw) == \A i \in DOMAIN raw : raw[i] = " "

\* The inputs the claim calls invalid: an empty symbol, a quantity <= 0, a
\* cost < 0.
InvalidInput(raw, quantity, cost) ==
    \/ Blank(raw)
    \/ IsNum(quantity) /\ quantity.m <= 0
    \/ IsNum(cost) /\ cost.m < 0

\* The invalid inputs among those SpecMerge submits.
InvalidInputs ==
    {t \in MergeTickers \X MergeQtys \X MergeCosts : InvalidInput(t[1], t[2], t[3])}

\* C2: the submission of an invalid merge changes neither the ledger, nor the
\* stored blob, nor the cache, and issues no request to the provider: a step
\* leaves them unchanged, or it is no submission of an invalid input.
C2_InvalidMergeRejected ==
    [][\/ UNCHANGED <<portfolio, storage, stockData, inflight, batches>>
       \/ \A t \in InvalidInputs : ~Submit(MaxMerged, t[1], t[2], t[3])]_vars

\* An invalid merge was submitted on a ledger that holds a position.
C2_Witness ==
    /\ lastEvent = [op |-> "submit", note |-> "ignored"]
    /\ portfolio # <<>>

(***************************************************************************)
(* C3: the backup round trip.                                              *)
(***************************************************************************)
\* Every position was created by a merge since the last restore.
MergedOnly == \A i \in DOMAIN portfolio : portfolio[i].symbol \in DOMAIN basis

Restored == "Portfolio restored successfully!"

\* C3: for every ledger made by valid merges and removes, the file its export
\* writes is accepted by the import and restores the same positions, in the
\* same order.  (The export writes a file for a ledger that is not empty.)
C3_RoundTrip ==
    (MergedOnly /\ portfolio # <<>>) =>
        /\ ImportOutcome(Stringify(portfolio), TRUE) = Restored
        /\ PositionsOf(Stringify(portfolio).items) = portfolio

(***************************************************************************)
(* C4: requests in flight.                                                 *)
(***************************************************************************)
\* C4: at most one request to the provider is in flight.
C4_OneRequestInFlight == BagCardinality(inflight) <= 1

(***************************************************************************)
(* C5: failures in a batch.                                                *)
(***************************************************************************)
\* The responses that make a request fail: a network error, or a body that
\* lacks a field the record is made of.
FetchFailure(resp) ==
    \/ ~resp.net \/ ~resp.result \/ ~resp.quote
    \/ resp.price = Undefined \/ resp.prev = Undefined
    \/ resp.timestamp = Undefined \/ resp.close = Undefined

\* C5: a request of a batch that fails leaves the cache as it was, and the
\* batch goes on to its delay and its next symbol; a request that succeeds
\* leaves a record with a price for its symbol.
C5_FailureIsolation ==
    [][\A req \in BagToSet(inflight), resp \in Responses :
          (req.owner = "batch" /\ Respond(req, resp)) =>
              /\ batches'[req.slot].pc = "sleep"
              /\ IF FetchFailure(resp) THEN stockData' = stockData
                 ELSE /\ req.symbol \in DOMAIN stockData'
                      /\ IsNum(stockData'[req.symbol].price)]_vars

(***************************************************************************)
(* C6: the order and the pace of a batch.                                  *)
(***************************************************************************)
\* The requests of the batch in slot k that are in flight.
BatchRequests(bag, k) ==
    Copies(bag, {r \in BagToSet(bag) : r.owner = "batch" /\ r.slot = k})

\* What a running batch has requested is the beginning of the array it
\* iterates, which is the ledger's as long as the ledger is not reassigned;
\* its request is in flight exactly while it awaits it.
BatchInOrder(k) ==
    batches[k] # Idle =>
        /\ batches[k].asked = SubSeq(batches[k].arr, 1, Len(batches[k].asked))
        /\ batches[k].live => batches[k].arr = SymbolsOf(portfolio)
        /\ BatchRequests(inflight, k) = (IF batches[k].pc = "fetch" THEN 1 ELSE 0)

\* A batch starts with the request of the ledger's first symbol.
BatchStarts(k) ==
    (batches[k] = Idle /\ batches'[k] # Idle) =>
        /\ batches'[k].arr = SymbolsOf(portfolio')
        /\ batches'[k].asked = <<batches'[k].arr[1]>>
        /\ batches'[k].pc = "fetch"

\* A batch requests one more symbol only from its delay, with no request of its
\* own in flight, and that symbol is the array's next one; it enters the delay
\* only as its request completes.
BatchPaced(k) ==
    (batches[k] # Idle /\ batches'[k] # Idle) =>
        /\ Len(batches'[k].asked) > Len(batches[k].asked) =>
              /\ batches[k].pc = "sleep"
              /\ BatchRequests(inflight, k) = 0
              /\ batches'[k].asked =
                    Append(batches[k].asked,
                           batches[k].arr[Len(batches[k].asked) + 1])
        /\ (batches[k].pc = "fetch" /\ batches'[k].pc = "sleep") =>
              BatchRequests(inflight', k) = BatchRequests(inflight, k) - 1

\* C6: a batch requests the symbols in the ledger's order, the next one only
\* once the previous request has completed and the delay has then elapsed, and
\* never has two requests in flight.
C6_BatchSequential ==
    /\ [](\A k \in Slots : BatchInOrder(k))
    /\ [][\A k \in Slots : BatchStarts(k) /\ BatchPaced(k)]_vars

\* A batch has requested its second symbol and awaits the response.
C6_Witness ==
    \E k \in Slots :
        /\ batches[k] # Idle
        /\ Len(batches[k].asked) = 2
        /\ batches[k].asked[1] # batches[k].asked[2]
        /\ batches[k].pc = "fetch"

(***************************************************************************)
(* C7: the valuation summary.                                              *)
(***************************************************************************)
\* The sum of a sequence of numbers, taken from left to right.
RECURSIVE FSum(_)
FSum(xs) ==
    IF xs = <<>> THEN Zero
    ELSE FAdd(FSum(SubSeq(xs, 1, Len(xs) - 1)), xs[Len(xs)])

\* The cache holds a price > 0 for the position's symbol.
HasPrice(stock) ==
    /\ stock.symbol \in DOMAIN stockData
    /\ Gt0(stockData[stock.symbol].price)

InvestedAmounts == [i \in DOMAIN portfolio |-> FMul(portfolio[i].qty, portfolio[i].cost)]

PricedPositions == SelectSeq(portfolio, HasPrice)

MarketValues ==
    [i \in DOMAIN PricedPositions |->
        FMul(PricedPositions[i].qty, stockData[PricedPositions[i].symbol].price)]

PlOf(invested, value) == FSub(value, invested)

\* C7: the summary's total invested is the sum of qty * cost over all the
\* positions, its current value the sum of qty * price over the positions with
\* a cached price > 0, it has data iff there is such a position, its P/L is
\* the difference and its P/L percent is P/L / invested * 100 when the
\* invested total is > 0, else 0.
C7_SummaryValues ==
    /\ Summarize(portfolio, stockData).totalInv = FSum(InvestedAmounts)
    /\ Summarize(portfolio, stockData).currentVal = FSum(MarketValues)
    /\ Summarize(portfolio, stockData).hasData
          <=> \E i \in DOMAIN portfolio : HasPrice(portfolio[i])
    /\ Summarize(portfolio, stockData).totalPl
          = PlOf(FSum(InvestedAmounts), FSum(MarketValues))
    /\ Summarize(portfolio, stockData).totalPlPercent
          = IF Gt0(FSum(InvestedAmounts))
            THEN FMul(FDiv(PlOf(FSum(InvestedAmounts), FSum(MarketValues)),
                           FSum(InvestedAmounts)),
                      Num(100))
            ELSE Zero

\* Two positions with money invested, one with a price > 0 and a profit, the
\* other with a cached record but no price > 0.
C7_Witness ==
    /\ Len(portfolio) = 2
    /\ Gt0(FSum(InvestedAmounts))
    /\ Len(PricedPositions) = 1
    /\ \E i \in DOMAIN portfolio :
          /\ portfolio[i].symbol \in DOMAIN stockData
          /\ ~HasPrice(portfolio[i])
          /\ Gt0(portfolio[i].cost)
    /\ Gt0(Summarize(portfolio, stockData).totalPl)

(***************************************************************************)
(* C8: imports that fail or are declined.                                  *)
(***************************************************************************)
\* An element with a truthy symbol, qty and cost.
Complete(item) ==
    /\ item.t = "obj"
    /\ Truthy(item.symbol) /\ Truthy(item.qty) /\ Truthy(item.cost)

\* The three ways a file fails, or "none".
FailureKind(file) ==
    IF file.t = "garbage" THEN "malformed file"
    ELSE IF file.t # "arr" THEN "not a list"
    ELSE IF \E i \in DOMAIN file.items : ~Complete(file.items[i]) THEN "schema error"
    ELSE "none"

\* C8: an import that fails or is declined changes neither the ledger, nor the
\* stored blob, nor the cache, and starts no fetch; and the outcome reported
\* for a failure is not the outcome of a failure of another kind.
C8_FailedImportIsolated ==
    [][\A file \in WithDownload(BackupFiles), confirmed \in BOOLEAN :
          (Import(file, confirmed) /\ (FailureKind(file) # "none" \/ ~confirmed)) =>
              /\ UNCHANGED <<portfolio, storage, stockData, inflight, batches>>
              /\ \A other \in BackupFiles :
                    (FailureKind(other) \notin {"none", FailureKind(file)}) =>
                        ImportOutcome(other, confirmed) # lastEvent'.note]_vars

(***************************************************************************)
(* C9, C10: the ledger's invariants.                                       *)
(***************************************************************************)
\* C9: every position has a non-empty symbol, a quantity > 0 and a cost >= 0.
C9_PositionsValid ==
    \A i \in DOMAIN portfolio :
        /\ portfolio[i].symbol # <<>>
        /\ Gt0(portfolio[i].qty)
        /\ Ge0(portfolio[i].cost)

\* C10: no two positions have the same symbol once it is put in upper case.
C10_OnePositionPerSymbol ==
    \A i, j \in DOMAIN portfolio :
        i # j => ToUpperCase(portfolio[i].symbol) # ToUpperCase(portfolio[j].symbol)

(***************************************************************************)
(* C11: the summary on display as a function of the ledger and the cache.  *)
(***************************************************************************)
\* C11: what updateSummary shows depends on the ledger and the cache alone:
\* run in the current state, it shows the same as on a newly loaded page with
\* the same ledger and the same cache.
C11_SummaryOfLedgerAndCache ==
    UpdateSummary(summaryView, portfolio, stockData)
        = UpdateSummary(InitialSummary, portfolio, stockData)

(***************************************************************************)
(* C12: what a remove leaves.                                              *)
(***************************************************************************)
\* The positions of the other symbols, in their order.
RECURSIVE Others(_, _)
Others(positions, symbol) ==
    IF positions = <<>> THEN <<>>
    ELSE IF Head(positions).symbol = symbol THEN Others(Tail(positions), symbol)
    ELSE <<Head(positions)>> \o Others(Tail(positions), symbol)

Holds(positions, symbol) == \E i \in DOMAIN positions : positions[i].symbol = symbol

\* C12: deleteStock(symbol) leaves the positions of the other symbols, with
\* their values and in their order, and nothing of that symbol; it leaves the
\* ledger as it is when the symbol has no position; it leaves the cache as it
\* is.
C12_RemoveFrame ==
    [][\A symbol \in RemoveSymbols :
          \/ ~DeleteStock(symbol)
          \/ /\ portfolio' = Others(portfolio, symbol)
             /\ ~Holds(portfolio', symbol)
             /\ ~Holds(portfolio, symbol) => portfolio' = portfolio
             /\ stockData' = stockData]_vars

\* B and A were restored and B fetched, then B was removed: A is left, and
\* B's record is still in the cache.
C12_Witness ==
    /\ lastEvent = [op |-> "import", note |-> Restored]
    /\ Len(portfolio) = 1
    /\ portfolio[1].symbol = <<"A">>
    /\ <<"B">> \in DOMAIN stockData

(***************************************************************************)
(* C13: responses that lack a field.                                       *)
(***************************************************************************)
\* C13: a response that is a failure (a network error, or a body that lacks
\* the price, the previous close or the history), to a request of whatever
\* caller, leaves the cache as it was.
C13_MissingFieldIsFailure ==
    [][\A req \in BagToSet(inflight), resp \in Responses :
          (FetchFailure(resp) /\ Respond(req, resp)) => stockData' = stockData]_vars

(***************************************************************************)
(* C14: the display after a mutation.                                      *)
(***************************************************************************)
\* C14: once the operations have finished, the fetch a merge starts included
\* (no request is in flight), the table is the one the ledger and the cache
\* produce, and the summary shows their total invested and current value.
C14_DisplayRefreshed ==
    inflight = EmptyBag =>
        /\ tableView = RenderTable(portfolio, stockData)
        /\ summaryView.totalInvestment
              = Dollars(Summarize(portfolio, stockData).totalInv)
        /\ summaryView.currentValue
              = IF Summarize(portfolio, stockData).hasData
                THEN Dollars(Summarize(portfolio, stockData).currentVal)
                ELSE Loading

(***************************************************************************)
(* C15: the records of the cache.                                          *)
(***************************************************************************)
\* The provider answered a body with the quote's meta and indicators.
Answered(resp) == resp.net /\ resp.result /\ resp.quote

\* The record is made of this response alone.
MadeOf(record, resp) ==
    /\ Answered(resp)
    /\ record.price = resp.price
    /\ record.change = FSub(resp.price, resp.prev)
    /\ record.history = [timestamp |-> resp.timestamp, close |-> resp.close]

\* The symbols whose record a step writes, removes or changes.
Written ==
    {s \in DOMAIN stockData \cup DOMAIN stockData' :
        \/ s \notin DOMAIN stockData
        \/ s \notin DOMAIN stockData'
        \/ stockData'[s] # stockData[s]}

\* The symbols of the requests that complete in a step.
Completed ==
    {r.symbol : r \in {q \in BagToSet(inflight) :
                          CopiesIn(q, inflight') < CopiesIn(q, inflight)}}

\* C15: every record of the cache has the price, the change and the history
\* of one response, its change being that response's price less its previous
\* close; and a step writes no record but that of the symbol whose request
\* completes in it.
C15_RecordsAtomic ==
    /\ [](\A s \in DOMAIN stockData :
             \E resp \in CacheResponses : MadeOf(stockData[s], resp))
    /\ [][Written \subseteq Completed]_vars

\* A and B have records of different responses, A's written while another
\* request for A is still in flight.
C15_Witness ==
    /\ DOMAIN stockData = {<<"A">>, <<"B">>}
    /\ MadeOf(stockData[<<"A">>], OtherQuote)
    /\ MadeOf(stockData[<<"B">>], Quote(3))
    /\ \E r \in BagToSet(inflight) : r.symbol = <<"A">>

(***************************************************************************)
(* C16: the stored blob and the ledger.                                    *)
(***************************************************************************)
\* C16: while nothing is stored the ledger is empty and no batch runs; once
\* the ledger was merged into, removed from or restored, the stored blob is
\* the serialization of the ledger, and loading the page from it gives the
\* same positions.
C16_BlobMirrorsLedger ==
    IF storage = JNull
    THEN portfolio = <<>> /\ batches = AllIdle
    ELSE storage = Stringify(portfolio) /\ Loaded(storage) = portfolio

(***************************************************************************)
(* C17: what writes the cache.                                             *)
(***************************************************************************)
\* C17: no merge, remove, restore, chart load or response takes a symbol's
\* record out of the cache, and the cache changes only when a request is
\* answered by a response that is not a failure.
C17_CacheAdditive ==
    [][/\ DOMAIN stockData \subseteq DOMAIN stockData'
       /\ \/ stockData' = stockData
          \/ \E req \in BagToSet(inflight), resp \in FetchResponses :
                ~FetchFailure(resp) /\ Respond(req, resp)]_vars

(***************************************************************************)
(* C18: the symbols a batch requests.                                      *)
(***************************************************************************)
\* C18: every request a batch issues is for a symbol that has a position in
\* the ledger when the request is issued.
C18_BatchRequestsLedgerSymbols ==
    [][\A r \in BagToSet(inflight') :
          (r.owner = "batch" /\ CopiesIn(r, inflight') > CopiesIn(r, inflight))
              => Holds(portfolio', r.symbol)]_vars

=============================================================================
